---- MODULE Spec2Model ----
(***************************************************************************)
(* Model of src/src/lib.rs: distinct permutations of a vector.             *)
(*                                                                         *)
(* The recursion of distinct_permutations_with is unfolded into an         *)
(* explicit stack of frames; each frame holds the locals of one call       *)
(* (keys, the loop position, result) and the position in the loop body.    *)
(* head and counts are the two objects shared by all frames (&mut).        *)
(*                                                                         *)
(* usize counts are kept as representatives of their residue class modulo  *)
(* 2^64: a small non-negative integer is itself, and -1 stands for         *)
(* usize::MAX (the result of a wrapping 0 - 1).  "> 0" on usize is "# 0".  *)
(***************************************************************************)
EXTENDS Integers, Sequences, FiniteSets, TLC

VARIABLES input, overflow_checks, status, counts, head, stack, ret, entered, prev

vars == <<input, overflow_checks, status, counts, head, stack, ret, entered, prev>>

\* Bounds of the model: inputs have at most MaxLen elements drawn from 0..MaxVal.
MaxLen == 3
MaxVal == 2

Values == 0..MaxVal

Inputs == UNION {[1..n -> Values] : n \in 0..MaxLen}

Range(s) == {s[i] : i \in DOMAIN s}

EmptyMap == [x \in {} |-> 0]

----------------------------------------------------------------------------
(* Variant: every distinct value counted once (occurrences not tallied).    *)
ItertoolsCounts_Once(s) == [v \in Range(s) |-> 1]

(* itertools: input.into_iter().counts()  -- value -> number of occurrences *)
ItertoolsCounts(s) ==
    [v \in Range(s) |-> Cardinality({i \in DOMAIN s : s[i] = v})]

(* Counts::from: the assertion `*v > 0` over all stored values (usize).     *)
Counts_from_ok(m) == \A k \in DOMAIN m : m[k] # 0

(* Counts::keys: the keys of the HashMap in its (arbitrary) iteration       *)
(* order; the set of all vectors the call may return.                       *)
Counts_keys(c) ==
    {ks \in [1..Cardinality(DOMAIN c) -> DOMAIN c] :
        \A i, j \in DOMAIN ks : i # j => ks[i] # ks[j]}

(* entry(k).or_default(): the stored value, 0 when the key is absent.       *)
Entry(c, k) == IF k \in DOMAIN c THEN c[k] ELSE 0

(* Variant: the entry is created but never incremented back.                *)
Counts_add_NoIncrement(c, k) ==
    [x \in DOMAIN c \cup {k} |-> IF x = k THEN Entry(c, k) ELSE c[x]]

(* Variant: the increment is applied twice.                                 *)
Counts_add_Twice(c, k) ==
    [x \in DOMAIN c \cup {k} |-> IF x = k THEN Entry(c, k) + 2 ELSE c[x]]

(* Counts::add: *entry += 1 on entry(k).or_default().                       *)
Counts_add(c, k) ==
    [x \in DOMAIN c \cup {k} |-> IF x = k THEN Entry(c, k) + 1 ELSE c[x]]

(* `+= 1` overflows exactly on usize::MAX (representative -1).              *)
AddOverflows(c, k) == Entry(c, k) = -1

(* Variant: the key is dropped whatever its count (all occurrences go).     *)
Counts_remove_WholeKey(c, k) == [x \in DOMAIN c \ {k} |-> c[x]]

(* Variant: the entry is decremented but never deleted at zero.             *)
Counts_remove_KeepZero(c, k) ==
    [x \in DOMAIN c \cup {k} |-> IF x = k THEN Entry(c, k) - 1 ELSE c[x]]

(* Counts::remove: *entry -= 1 on entry(k).or_default(); the entry is       *)
(* deleted when it became 0, otherwise it stays (inserted if it was absent).*)
Counts_remove(c, k) ==
    LET dec == Entry(c, k) - 1
    IN  IF dec = 0
        THEN [x \in DOMAIN c \ {k} |-> c[x]]
        ELSE [x \in DOMAIN c \cup {k} |-> IF x = k THEN dec ELSE c[x]]

(* `-= 1` overflows exactly on 0.                                           *)
SubOverflows(c, k) == Entry(c, k) = 0

(* Counts::is_empty                                                         *)
Counts_is_empty(c) == DOMAIN c = {}

(* keys.sort(): ascending by T's Ord (insertion into a sorted vector).      *)
RECURSIVE InsertSorted(_, _)
InsertSorted(x, s) ==
    IF s = <<>> THEN <<x>>
    ELSE IF x <= Head(s) THEN <<x>> \o s
    ELSE <<Head(s)>> \o InsertSorted(x, Tail(s))

(* Variant: keys are used in the HashMap's iteration order, unsorted.       *)
SortKeys_Unsorted(ks) == ks

RECURSIVE SortKeys(_)
SortKeys(ks) ==
    IF ks = <<>> THEN <<>> ELSE InsertSorted(Head(ks), SortKeys(Tail(ks)))

(* Variant: a call that finds no key left reports the current head as a     *)
(* complete permutation.                                                    *)
NewFrame_BaseCase(ks) ==
    [result |-> IF ks = <<>> THEN <<head>> ELSE <<>>,
     keys |-> SortKeys(ks), i |-> 1, pc |-> "loop"]

(* Entry of distinct_permutations_with: result = vec![], keys = sorted      *)
(* keys of counts, the for loop positioned on the first key.                *)
NewFrame(ks) ==
    [result |-> <<>>, keys |-> SortKeys(ks), i |-> 1, pc |-> "loop"]

----------------------------------------------------------------------------
Top == stack[Len(stack)]

TopValue == Top.keys[Top.i]

SetTop(f) == [stack EXCEPT ![Len(stack)] = f]

NoCall == [called |-> FALSE, input |-> <<>>, ret |-> <<>>]

Init ==
    /\ input \in Inputs
    /\ overflow_checks \in BOOLEAN
    /\ status = "ready"
    /\ counts = EmptyMap
    /\ head = <<>>
    /\ stack = <<>>
    /\ ret = <<>>
    /\ entered = <<>>
    /\ prev = NoCall

(* distinct_permutations: build the counts, allocate head, enter the search *)
Call ==
    /\ status = "ready"
    /\ LET m == ItertoolsCounts(input)
       IN  IF Counts_from_ok(m)
           THEN /\ counts' = m
                /\ head' = <<>>
                /\ \E ks \in Counts_keys(m) : stack' = <<NewFrame(ks)>>
                /\ entered' = <<[head |-> <<>>, counts |-> m]>>
                /\ status' = "running"
           ELSE /\ status' = "panicked"
                /\ UNCHANGED <<counts, head, stack, entered>>
    /\ UNCHANGED <<input, overflow_checks, ret, prev>>

(* for value in keys { head.push(value.clone());                            *)
Push ==
    /\ status = "running"
    /\ Top.pc = "loop"
    /\ Top.i <= Len(Top.keys)
    /\ head' = Append(head, TopValue)
    /\ stack' = SetTop([Top EXCEPT !.pc = "remove"])
    /\ UNCHANGED <<input, overflow_checks, status, counts, ret, entered, prev>>

(* counts.remove(&value);                                                   *)
Remove ==
    /\ status = "running"
    /\ Top.pc = "remove"
    /\ IF overflow_checks /\ SubOverflows(counts, TopValue)
       THEN /\ status' = "panicked"
            /\ UNCHANGED <<counts, stack>>
       ELSE /\ counts' = Counts_remove(counts, TopValue)
            /\ stack' = SetTop([Top EXCEPT !.pc = "test"])
            /\ UNCHANGED status
    /\ UNCHANGED <<input, overflow_checks, head, ret, entered, prev>>

(* if counts.is_empty() { result.push(head.clone()) }                       *)
Record ==
    /\ status = "running"
    /\ Top.pc = "test"
    /\ Counts_is_empty(counts)
    /\ stack' = SetTop([Top EXCEPT !.result = Append(@, head), !.pc = "pop"])
    /\ UNCHANGED <<input, overflow_checks, status, counts, head, ret, entered, prev>>

(* else { ... distinct_permutations_with(head, counts) ... }: the call      *)
Recurse ==
    /\ status = "running"
    /\ Top.pc = "test"
    /\ ~Counts_is_empty(counts)
    /\ \E ks \in Counts_keys(counts) : stack' = Append(stack, NewFrame(ks))
    /\ entered' = Append(entered, [head |-> head, counts |-> counts])
    /\ UNCHANGED <<input, overflow_checks, status, counts, head, ret, prev>>

(* the loop of a recursive call is exhausted: it returns result, and the    *)
(* caller does result.append(&mut ...)                                      *)
ReturnNested ==
    /\ status = "running"
    /\ Len(stack) > 1
    /\ Top.pc = "loop"
    /\ Top.i > Len(Top.keys)
    /\ LET caller == stack[Len(stack) - 1]
       IN  stack' = [SubSeq(stack, 1, Len(stack) - 1) EXCEPT ![Len(stack) - 1] =
                        [caller EXCEPT !.result = @ \o Top.result, !.pc = "pop"]]
    /\ entered' = SubSeq(entered, 1, Len(entered) - 1)
    /\ UNCHANGED <<input, overflow_checks, status, counts, head, ret, prev>>

(* the loop of the top-level call is exhausted: distinct_permutations       *)
(* returns its result                                                       *)
ReturnTop ==
    /\ status = "running"
    /\ Len(stack) = 1
    /\ Top.pc = "loop"
    /\ Top.i > Len(Top.keys)
    /\ ret' = Top.result
    /\ stack' = <<>>
    /\ entered' = <<>>
    /\ status' = "returned"
    /\ UNCHANGED <<input, overflow_checks, counts, head, prev>>

(* head.pop();                                                              *)
Pop ==
    /\ status = "running"
    /\ Top.pc = "pop"
    /\ head' = IF head = <<>> THEN <<>> ELSE SubSeq(head, 1, Len(head) - 1)
    /\ stack' = SetTop([Top EXCEPT !.pc = "add"])
    /\ UNCHANGED <<input, overflow_checks, status, counts, ret, entered, prev>>

(* counts.add(value); } -- and on to the next key                           *)
Add ==
    /\ status = "running"
    /\ Top.pc = "add"
    /\ IF overflow_checks /\ AddOverflows(counts, TopValue)
       THEN /\ status' = "panicked"
            /\ UNCHANGED <<counts, stack>>
       ELSE /\ counts' = Counts_add(counts, TopValue)
            /\ stack' = SetTop([Top EXCEPT !.i = @ + 1, !.pc = "loop"])
            /\ UNCHANGED status
    /\ UNCHANGED <<input, overflow_checks, head, ret, entered, prev>>

(* A caller calls distinct_permutations a second time, on a rearrangement   *)
(* of the first input (test_input_order_does_not_matter).                   *)
CallAgain ==
    /\ status = "returned"
    /\ ~prev.called
    /\ prev' = [called |-> TRUE, input |-> input, ret |-> ret]
    /\ \E s \in [DOMAIN input -> Values] :
          /\ ItertoolsCounts(s) = ItertoolsCounts(input)
          /\ input' = s
    /\ status' = "ready"
    /\ ret' = <<>>
    /\ counts' = EmptyMap
    /\ head' = <<>>
    /\ UNCHANGED <<overflow_checks, stack, entered>>

Next ==
    \/ Call
    \/ Push
    \/ Remove
    \/ Record
    \/ Recurse
    \/ ReturnNested
    \/ ReturnTop
    \/ Pop
    \/ Add
    \/ CallAgain

Spec == Init /\ [][Next]_vars

----------------------------------------------------------------------------
(* Reference notions the properties are stated with.                        *)

Occ(s, v) == Cardinality({i \in DOMAIN s : s[i] = v})

SameMultiset(s, t) == \A v \in Values : Occ(s, v) = Occ(t, v)

Rearrangements(s) == {t \in [DOMAIN s -> Values] : SameMultiset(s, t)}

Min(a, b) == IF a <= b THEN a ELSE b

LexLess(a, b) ==
    \/ \E i \in 1..Min(Len(a), Len(b)) :
          /\ \A j \in 1..(i - 1) : a[j] = b[j]
          /\ a[i] < b[i]
    \/ /\ Len(a) < Len(b)
       /\ \A j \in 1..Len(a) : a[j] = b[j]

StrictlyIncreasing(q) == \A i \in 1..(Len(q) - 1) : LexLess(q[i], q[i + 1])

RECURSIVE Fact(_)
Fact(n) == IF n <= 0 THEN 1 ELSE n * Fact(n - 1)

RECURSIVE ProdFact(_, _)
ProdFact(s, S) ==
    IF S = {} THEN 1
    ELSE LET v == CHOOSE x \in S : TRUE
         IN  Fact(Occ(s, v)) * ProdFact(s, S \ {v})

Multinomial(s) == Fact(Len(s)) \div ProdFact(s, Range(s))

PairwiseDistinct(s) == \A i, j \in DOMAIN s : i # j => s[i] # s[j]

IndexPermutations(n) ==
    {p \in [1..n -> 1..n] : \A i, j \in 1..n : i # j => p[i] # p[j]}

RECURSIVE SortedSeqOf(_)
SortedSeqOf(S) ==
    IF S = {} THEN <<>>
    ELSE LET m == CHOOSE x \in S : \A y \in S : x = y \/ LexLess(x, y)
         IN  <<m>> \o SortedSeqOf(S \ {m})

BruteForceSorted(s) ==
    SortedSeqOf({[i \in DOMAIN s |-> s[p[i]]] : p \in IndexPermutations(Len(s))})

Returned == status = "returned"

Running == status = "running"

----------------------------------------------------------------------------
\* C1: for every non-empty input, the set of returned sequences is exactly
\* the set of rearrangements of the input (same multiset of values).
C1_AllRearrangements ==
    (Returned /\ input # <<>>) => Range(ret) = Rearrangements(input)

C1_Witness ==
    /\ Returned
    /\ Len(input) >= 3
    /\ Cardinality(Range(input)) = 2
    /\ Len(ret) >= 3

\* C2: the returned sequence is strictly increasing in lexicographic order,
\* so no permutation occurs twice.
C2_StrictlyIncreasing ==
    Returned =>
        /\ StrictlyIncreasing(ret)
        /\ \A i, j \in DOMAIN ret : i # j => ret[i] # ret[j]

C2_Witness ==
    /\ Returned
    /\ ~PairwiseDistinct(input)
    /\ Len(ret) >= 3

\* C3 (as stated): for every input the number of returned permutations is
\* n! / (c1! * ... * ck!).  The empty input (n = 0, no frequencies) gives 1
\* by the formula, and the code returns no permutation.
C3_CardinalityAnyInput ==
    Returned => Len(ret) = Multinomial(input)

\* C3 (amended): for every non-empty input the number of returned
\* permutations is n! / (c1! * ... * ck!).
C3_CardinalityNonEmpty ==
    (Returned /\ input # <<>>) => Len(ret) = Multinomial(input)

C3_Witness ==
    /\ Returned
    /\ Len(input) = 3
    /\ Len(ret) = 3

\* C4: two calls on inputs that are rearrangements of each other return
\* equal sequences.
C4_OrderIndependent ==
    (Returned /\ prev.called /\ SameMultiset(prev.input, input))
        => ret = prev.ret

C4_Witness ==
    /\ Returned
    /\ prev.called
    /\ prev.input # input
    /\ SameMultiset(prev.input, input)
    /\ Len(ret) >= 2

\* C5: on the empty input the result is the empty sequence of permutations,
\* not a sequence holding one empty permutation.
C5_EmptyInput ==
    (Returned /\ input = <<>>) => (ret = <<>> /\ ret # << <<>> >>)

C5_Witness ==
    /\ Returned
    /\ input = <<>>
    /\ Len(ret) = 0

\* C6 (as stated): whenever the input elements are pairwise distinct, the
\* result equals the sorted list of all n! permutations produced by brute
\* force.  The empty input is pairwise distinct and has 0! = 1 permutation.
C6_UniqueAnyInput ==
    (Returned /\ PairwiseDistinct(input)) =>
        /\ ret = BruteForceSorted(input)
        /\ Len(ret) = Fact(Len(input))

\* C6 (amended): whenever the input is non-empty and its elements are
\* pairwise distinct, the result equals the sorted list of all n!
\* permutations produced by brute force.
C6_UniqueNonEmpty ==
    (Returned /\ input # <<>> /\ PairwiseDistinct(input)) =>
        /\ ret = BruteForceSorted(input)
        /\ Len(ret) = Fact(Len(input))

C6_Witness ==
    /\ Returned
    /\ Len(input) = 3
    /\ PairwiseDistinct(input)
    /\ Len(ret) = 6

\* C7: no contract failure is reachable: the assertion of Counts::from holds
\* and no arithmetic panics, and every Counts::remove of the search acts on
\* a value whose current count is at least 1.
C7_NoContractFailure ==
    /\ status # "panicked"
    /\ (status = "ready") => Counts_from_ok(ItertoolsCounts(input))
    /\ (Running /\ Top.pc = "remove") => Entry(counts, TopValue) >= 1

C7_Witness ==
    /\ Running
    /\ Len(stack) >= 2
    /\ Top.pc = "remove"
    /\ Top.i >= 2

\* C8: every call of the search leaves head and counts as they were when the
\* call started: between loop iterations and at the return of each frame
\* (top-level or recursive) both equal their values at the frame's entry.
C8_FrameRestored ==
    /\ (Running /\ Top.pc = "loop") =>
          /\ head = entered[Len(entered)].head
          /\ counts = entered[Len(entered)].counts
    /\ Returned => (head = <<>> /\ \A v \in Values : Entry(counts, v) = Occ(input, v))

C8_Witness ==
    /\ Running
    /\ Len(stack) >= 2
    /\ Top.pc = "loop"
    /\ Len(Top.keys) >= 2
    /\ Top.i > Len(Top.keys)

\* C9: conservation of elements: whenever the push/remove pair or the
\* pop/add pair has completed, head plus counts is the input multiset; every
\* recorded permutation has the input's length.
C9_Conservation ==
    /\ (Running /\ Top.pc \in {"loop", "test", "pop"}) =>
          \A v \in Values : Occ(head, v) + Entry(counts, v) = Occ(input, v)
    /\ \A f \in DOMAIN stack : \A r \in DOMAIN stack[f].result :
          Len(stack[f].result[r]) = Len(input)
    /\ \A r \in DOMAIN ret : Len(ret[r]) = Len(input)

C9_Witness ==
    /\ Running
    /\ Len(stack) >= 2
    /\ Top.pc = "pop"
    /\ Counts_is_empty(counts)
    /\ Len(Top.result) = 1
    /\ Top.result[1] = head

\* C10: every count stored in the counter is strictly positive; keys()
\* reports exactly the values with count at least 1; is_empty() holds
\* exactly when no occurrence of the input remains to be placed.
C10_CounterInvariant ==
    /\ \A k \in DOMAIN counts : counts[k] >= 1
    /\ \A ks \in Counts_keys(counts) :
          Range(ks) = {v \in Values : Entry(counts, v) >= 1}
    /\ (Running /\ Top.pc \in {"loop", "test"}) =>
          (Counts_is_empty(counts) <=> Len(head) = Len(input))

C10_Witness ==
    /\ Running
    /\ Top.pc = "test"
    /\ TopValue \notin DOMAIN counts
    /\ ~Counts_is_empty(counts)

====
